---- MODULE Spec2Model ----
(***************************************************************************)
(* Model of the Git Code Ownership Analyzer (src/main.py).                 *)
(*                                                                         *)
(* Text is modelled at character level: a string is a sequence of          *)
(* one-character strings, so that split, strip, the substring tests and    *)
(* int() are computed the way Python computes them.  None is the tuple     *)
(* NoneVal, which is no character sequence.                                *)
(*                                                                         *)
(* Two specifications share the pure operators:                            *)
(*   SpecAnalyze  one call of analyze_file_ownership, one line per step;   *)
(*   SpecMain     main: argument parsing, the per-file loop, the sort and  *)
(*                the report.                                              *)
(***************************************************************************)
EXTENDS Integers, Sequences, FiniteSets, TLC

VARIABLES
    team_members,    \* the team identity set (a set of strings)
    output,          \* analyze_file_ownership: what run_git_command returned
    lines,           \* analyze_file_ownership: output.split('\n')
    pos,             \* analyze_file_ownership: index of the next line of the for loop
    authors,         \* analyze_file_ownership: the defaultdict author -> stats
    current_author,  \* analyze_file_ownership: None or the last header's author
    pc,              \* analyze_file_ownership: "git", "scan" or "done"
    result,          \* analyze_file_ownership: the returned value
    arg_team,        \* main: args.team_members, the raw --team-members string
    threshold,       \* main: args.threshold
    min_commits,     \* main: args.min_commits
    repo,            \* main: per tracked file (by position), the text git log prints for it
    file_i,          \* main: index of the next file of the per-file loop
    results,         \* main: the analyzed list
    owned_files,     \* main: the owned list
    report,          \* main: output_data, the report written to the output file
    exit_code,       \* main: -1 while running, 2 after sys.exit(2), 0 after a normal end
    mpc              \* main: "args", "loop", "exit" or "end"

avars == <<output, lines, pos, authors, current_author, pc, result>>
mvars == <<arg_team, threshold, min_commits, repo, file_i, results, owned_files,
           report, exit_code, mpc>>
vars == <<team_members, output, lines, pos, authors, current_author, pc, result,
          arg_team, threshold, min_commits, repo, file_i, results, owned_files,
          report, exit_code, mpc>>

(***************************************************************************)
(* Bounds of the model.                                                    *)
(***************************************************************************)
\* the longest log text, in lines, that one analysis is given
MaxLines == 4
\* the longest list of tracked files main is given
MaxFiles == 3

(***************************************************************************)
(* Characters and Python's string primitives.                              *)
(***************************************************************************)
TAB == "\t"
NL == "\n"
BAR == "|"
AT == "@"
COMMA == ","
DASH == "-"

\* Python's None
NoneVal == <<"<None>">>

\* the characters str.strip() and int() treat as whitespace
Whitespace == {" ", "\t", "\n", "\r", "\f"}

Digits == {"0", "1", "2", "3", "4", "5", "6", "7", "8", "9"}

DigitVal(c) ==
    CASE c = "0" -> 0 [] c = "1" -> 1 [] c = "2" -> 2 [] c = "3" -> 3 [] c = "4" -> 4
      [] c = "5" -> 5 [] c = "6" -> 6 [] c = "7" -> 7 [] c = "8" -> 8 [] c = "9" -> 9

\* `c in s` for a one-character c
Contains(s, c) == \E k \in 1..Len(s) : s[k] = c

\* s.split(sep) for a one-character sep: always at least one field
RECURSIVE Split(_, _)
Split(s, sep) ==
    IF ~Contains(s, sep)
    THEN <<s>>
    ELSE LET k == CHOOSE k \in 1..Len(s) :
                      s[k] = sep /\ \A j \in 1..(k - 1) : s[j] # sep
         IN  <<SubSeq(s, 1, k - 1)>> \o Split(SubSeq(s, k + 1, Len(s)), sep)

RECURSIVE LStrip(_)
LStrip(s) ==
    IF s # <<>> /\ Head(s) \in Whitespace THEN LStrip(Tail(s)) ELSE s

RECURSIVE RStrip(_)
RStrip(s) ==
    IF s # <<>> /\ s[Len(s)] \in Whitespace
    THEN RStrip(SubSeq(s, 1, Len(s) - 1))
    ELSE s

\* s.strip()
Strip(s) == RStrip(LStrip(s))

\* Python's truth value of a string or None
Truthy(s) == s # NoneVal /\ s # <<>>

\* the digits of an int() literal: digits, single underscores only between digits
DigitBody(b) ==
    /\ b # <<>>
    /\ b[1] \in Digits
    /\ b[Len(b)] \in Digits
    /\ \A k \in 1..Len(b) : b[k] \in Digits \cup {"_"}
    /\ \A k \in 1..(Len(b) - 1) : ~(b[k] = "_" /\ b[k + 1] = "_")

RECURSIVE DigitsValue(_, _)
DigitsValue(b, acc) ==
    IF b = <<>> THEN acc
    ELSE IF Head(b) = "_" THEN DigitsValue(Tail(b), acc)
    ELSE DigitsValue(Tail(b), 10 * acc + DigitVal(Head(b)))

\* int(s): surrounding whitespace dropped, an optional sign, then the digits;
\* ok = FALSE stands for ValueError
PyInt(s) ==
    LET t == Strip(s)
        signed == t # <<>> /\ t[1] \in {"+", "-"}
        body == IF signed THEN Tail(t) ELSE t
    IN  IF DigitBody(body)
        THEN [ok |-> TRUE,
              val |-> IF signed /\ t[1] = "-"
                      THEN 0 - DigitsValue(body, 0)
                      ELSE DigitsValue(body, 0)]
        ELSE [ok |-> FALSE, val |-> 0]

(***************************************************************************)
(* analyze_file_ownership: the scan loop.                                  *)
(***************************************************************************)
\* the default factory of the authors defaultdict
ZeroStats == [commits |-> 0, additions |-> 0, deletions |-> 0, net_lines |-> 0]

\* authors[a], as the defaultdict gives it
StatsOf(au, a) == IF a \in DOMAIN au THEN au[a] ELSE ZeroStats

\* authors[a] = s
Put(au, a, s) == [x \in (DOMAIN au) \cup {a} |-> IF x = a THEN s ELSE au[x]]

\* the mapping with no author
NoAuthors == [x \in {} |-> ZeroStats]

\* line 67: the commit-header test
IsHeaderLine(line) == Contains(line, BAR) /\ Contains(line, AT)

\* the numstat test without its current-author half
NumstatGuardNoAuthor(line, cur) == Strip(line) # <<>>

\* line 74: the numstat test
NumstatGuard(line, cur) == Strip(line) # <<>> /\ Truthy(cur)

\* a commit header that sets the current author and counts no commit
HeaderStepOther(st, line) ==
    LET parts == Split(line, BAR)
    IN  IF Len(parts) >= 2
        THEN LET a == Strip(parts[1])
             IN  [authors |-> Put(st.authors, a, StatsOf(st.authors, a)),
                  current_author |-> a]
        ELSE st

\* lines 69-73: a commit header
HeaderStep(st, line) ==
    LET parts == Split(line, BAR)
    IN  IF Len(parts) >= 2
        THEN LET a == Strip(parts[1])
                 s == StatsOf(st.authors, a)
             IN  [authors |-> Put(st.authors, a,
                                  [s EXCEPT !.commits = s.commits + 1]),
                  current_author |-> a]
        ELSE st

\* lines 79-80: one count field, '-' read as 0
ParseCount(f) == IF f = <<DASH>> THEN [ok |-> TRUE, val |-> 0] ELSE PyInt(f)

\* a numstat line whose additions are counted before the deletions are parsed
NumstatStepPartial(st, line) ==
    LET parts == Split(line, TAB)
    IN  IF Len(parts) >= 2
        THEN LET pa == ParseCount(parts[1])
                 pd == ParseCount(parts[2])
                 a == st.current_author
                 s == StatsOf(st.authors, a)
             IN  IF pa.ok
                 THEN [st EXCEPT !.authors =
                          Put(st.authors, a,
                              [s EXCEPT !.additions = s.additions + pa.val,
                                        !.deletions = s.deletions + pd.val,
                                        !.net_lines = s.net_lines + (pa.val - pd.val)])]
                 ELSE st
        ELSE st

\* lines 76-85: a numstat line; a ValueError leaves everything as it was
NumstatStep(st, line) ==
    LET parts == Split(line, TAB)
    IN  IF Len(parts) >= 2
        THEN LET pa == ParseCount(parts[1])
                 pd == ParseCount(parts[2])
                 a == st.current_author
                 s == StatsOf(st.authors, a)
             IN  IF pa.ok /\ pd.ok
                 THEN [st EXCEPT !.authors =
                          Put(st.authors, a,
                              [s EXCEPT !.additions = s.additions + pa.val,
                                        !.deletions = s.deletions + pd.val,
                                        !.net_lines = s.net_lines + (pa.val - pd.val)])]
                 ELSE st
        ELSE st

\* lines 66-85: the body of the for loop, on one line
ScanLine(st, line) ==
    IF IsHeaderLine(line) THEN HeaderStep(st, line)
    ELSE IF NumstatGuard(line, st.current_author) THEN NumstatStep(st, line)
    ELSE st

\* lines 60-85: the whole loop
RECURSIVE ScanAll(_, _)
ScanAll(st, ls) == IF ls = <<>> THEN st ELSE ScanAll(ScanLine(st, Head(ls)), Tail(ls))

(***************************************************************************)
(* analyze_file_ownership: the aggregation.                                *)
(***************************************************************************)
RECURSIVE SumOver(_, _, _)
SumOver(au, S, f) ==
    IF S = {} THEN 0
    ELSE LET a == CHOOSE a \in S : TRUE
         IN  au[a][f] + SumOver(au, S \ {a}, f)

\* lines 105-109
TotalStat(au, f) == SumOver(au, DOMAIN au, f)

\* the team sum without the membership test
TeamStatAll(au, team, f) == SumOver(au, DOMAIN au, f)

\* lines 111-115
TeamStat(au, team, f) == SumOver(au, {a \in DOMAIN au : a \in team}, f)

\* a percentage n / d * 100 is kept as the exact fraction num / den (den > 0):
\* for the counts of this model the float Python computes orders and compares
\* with the thresholds exactly as the fraction does
Percent(n, d) == [num |-> n * 100, den |-> d]

ZeroPercent == [num |-> 0, den |-> 1]

\* p >= t, p < q and p = q on percentages
PctGE(p, t) == p.num >= t * p.den
PctLess(p, q) == p.num * q.den < q.num * p.den
PctEq(p, q) == p.num * q.den = q.num * p.den

NoResult == [none |-> TRUE]

\* lines 87-131
Aggregate(file, au, team) ==
    IF DOMAIN au = {} THEN NoResult
    ELSE IF TotalStat(au, "commits") = 0 THEN NoResult
    ELSE [none |-> FALSE,
          file |-> file,
          team_commits |-> TeamStat(au, team, "commits"),
          total_commits |-> TotalStat(au, "commits"),
          team_commit_percentage |->
              Percent(TeamStat(au, team, "commits"), TotalStat(au, "commits")),
          team_additions |-> TeamStat(au, team, "additions"),
          total_additions |-> TotalStat(au, "additions"),
          team_addition_percentage |->
              IF TotalStat(au, "additions") > 0
              THEN Percent(TeamStat(au, team, "additions"), TotalStat(au, "additions"))
              ELSE ZeroPercent,
          all_authors |-> DOMAIN au,
          team_authors |-> {a \in DOMAIN au : a \in team}]

InitScan == [authors |-> NoAuthors, current_author |-> NoneVal]

\* lines 40-131: the whole function, on the text git printed (None on failure)
AnalyzeFileOwnership(file, team, out) ==
    IF ~Truthy(out) THEN NoResult
    ELSE Aggregate(file, ScanAll(InitScan, Split(out, NL)).authors, team)

(***************************************************************************)
(* The inputs of one analysis: what git log --format=%ae|%ad|%H --numstat  *)
(* may print for a file, line by line.                                     *)
(***************************************************************************)
AuthorA == <<"a", "@">>
AuthorB == <<"b", "@">>

\* header lines: author a@, author b@, and one whose first field is blank
HdrA == <<"a", "@", "|">>
HdrB == <<"b", "@", "|">>
HdrBlankAuthor == <<" ", "|", "@">>
\* numstat lines: 2 added 1 deleted; a binary file; a negative literal
StatOk == <<"2", "\t", "1">>
StatBinary == <<"-", "\t", "-">>
StatNegative == <<"-", "1", "\t", "1">>
\* lines that are neither: a bad second field, a single field, a blank line
BadSecond == <<"1", "\t", "x">>
OneField == <<"7">>
BlankLine == <<>>

SampleLines == {HdrA, HdrB, HdrBlankAuthor, StatOk, StatBinary, StatNegative,
                BadSecond, OneField, BlankLine}

\* the text git prints: every line ended by a newline
RECURSIVE GitText(_)
GitText(ls) == IF ls = <<>> THEN <<>> ELSE Head(ls) \o <<NL>> \o GitText(Tail(ls))

\* lines 16-29: run_git_command returns the text, or None when git fails
GitOutputs ==
    {NoneVal} \cup
    {GitText(ls) : ls \in UNION {[1..n -> SampleLines] : n \in 0..MaxLines}}

TeamSets == {{AuthorA}, {AuthorA, AuthorB}}

\* main's variables, at rest while one analysis is followed
MainIdle ==
    /\ arg_team = <<>>
    /\ threshold = 0
    /\ min_commits = 0
    /\ repo = <<>>
    /\ file_i = 1
    /\ results = <<>>
    /\ owned_files = <<>>
    /\ report = NoResult
    /\ exit_code = -1
    /\ mpc = "idle"

\* lines 40-56: the call, with the text git is about to return
InitAnalyze ==
    /\ team_members \in TeamSets
    /\ output \in GitOutputs
    /\ lines = <<>>
    /\ pos = 1
    /\ authors = NoAuthors
    /\ current_author = NoneVal
    /\ pc = "git"
    /\ result = NoResult
    /\ MainIdle

\* lines 56-64
RunGit ==
    /\ pc = "git"
    /\ IF ~Truthy(output)
       THEN /\ result' = NoResult
            /\ pc' = "done"
            /\ UNCHANGED <<lines, pos, authors, current_author>>
       ELSE /\ lines' = Split(output, NL)
            /\ authors' = NoAuthors
            /\ current_author' = NoneVal
            /\ pos' = 1
            /\ pc' = "scan"
            /\ UNCHANGED result
    /\ UNCHANGED <<team_members, output>>
    /\ UNCHANGED mvars

\* lines 66-85: one iteration of the for loop
ScanStep ==
    /\ pc = "scan"
    /\ pos <= Len(lines)
    /\ LET st == ScanLine([authors |-> authors, current_author |-> current_author],
                          lines[pos])
       IN  /\ authors' = st.authors
           /\ current_author' = st.current_author
    /\ pos' = pos + 1
    /\ UNCHANGED <<team_members, output, lines, pc, result>>
    /\ UNCHANGED mvars

\* lines 87-131: the loop is over
Finish ==
    /\ pc = "scan"
    /\ pos > Len(lines)
    /\ result' = Aggregate(1, authors, team_members)
    /\ pc' = "done"
    /\ UNCHANGED <<team_members, output, lines, pos, authors, current_author>>
    /\ UNCHANGED mvars

NextAnalyze == RunGit \/ ScanStep \/ Finish

SpecAnalyze == InitAnalyze /\ [][NextAnalyze]_vars

(***************************************************************************)
(* main.                                                                   *)
(***************************************************************************)
\* line 146 and line 167: the defaults of --threshold and --min-commits
DefaultThreshold == 30
DefaultMinCommits == 3

\* line 178: set(email.strip() for email in args.team_members.split(','))
ParseTeamMembers(arg) ==
    LET parts == Split(arg, COMMA)
    IN  {Strip(parts[k]) : k \in 1..Len(parts)}

\* line 180: the test that rejects the run
NoTeamMember(team) == Cardinality(team) < 1

\* the results test with > for >=
AnalyzedStrict(analysis, minc) == ~analysis.none /\ analysis.total_commits > minc

\* line 229: the record enters results
Analyzed(analysis, minc) == ~analysis.none /\ analysis.total_commits >= minc

\* line 232: the record enters owned_files
Owned(analysis, thr) == PctGE(analysis.team_commit_percentage, thr)

\* a descending insertion that puts a record ahead of its ties
InsertDescTiesFirst(sorted, r) ==
    LET before == {k \in 1..Len(sorted) :
                      PctLess(r.team_commit_percentage, sorted[k].team_commit_percentage)}
        n == Cardinality(before)
    IN  SubSeq(sorted, 1, n) \o <<r>> \o SubSeq(sorted, n + 1, Len(sorted))

\* line 236: list.sort(key, reverse=True) is stable: a record goes behind every
\* record whose percentage is not lower than its own
InsertDesc(sorted, r) ==
    LET before == {k \in 1..Len(sorted) :
                      ~PctLess(sorted[k].team_commit_percentage, r.team_commit_percentage)}
        n == Cardinality(before)
    IN  SubSeq(sorted, 1, n) \o <<r>> \o SubSeq(sorted, n + 1, Len(sorted))

\* line 236: the sort, record by record
RECURSIVE SortInto(_, _)
SortInto(sorted, rest) ==
    IF rest = <<>> THEN sorted ELSE SortInto(InsertDesc(sorted, Head(rest)), Tail(rest))

SortByTeamPercentage(recs) == SortInto(<<>>, recs)

\* the --team-members strings: one member; two; the same member twice with
\* blanks; the empty string; only blanks between commas
TeamArgs == {<<"a", "@">>,
             <<"a", "@", ",", "b", "@">>,
             <<" ", "a", "@", ",", "a", "@">>,
             <<>>,
             <<" ", ",", " ">>}

Thresholds == {DefaultThreshold, 50}

MinCommitsArgs == {1, DefaultMinCommits}

\* the history of one tracked file: none; one team commit; one commit each;
\* two team commits around one other; three commits of the other author; two each
FileLogs == {<<>>,
             GitText(<<HdrA, StatOk>>),
             GitText(<<HdrA, StatOk, HdrB, StatOk>>),
             GitText(<<HdrA, HdrB, StatBinary, HdrA>>),
             GitText(<<HdrB, HdrB, StatOk, HdrB>>),
             GitText(<<HdrA, HdrA, StatOk, HdrB, HdrB>>)}

AnalyzeIdle ==
    /\ output = NoneVal
    /\ lines = <<>>
    /\ pos = 1
    /\ authors = NoAuthors
    /\ current_author = NoneVal
    /\ pc = "idle"
    /\ result = NoResult

\* lines 134-175: the parsed arguments, and the files git ls-files lists
InitMain ==
    /\ arg_team \in TeamArgs
    /\ threshold \in Thresholds
    /\ min_commits \in MinCommitsArgs
    /\ repo \in UNION {[1..n -> FileLogs] : n \in 0..MaxFiles}
    /\ team_members = {}
    /\ file_i = 1
    /\ results = <<>>
    /\ owned_files = <<>>
    /\ report = NoResult
    /\ exit_code = -1
    /\ mpc = "args"
    /\ AnalyzeIdle

\* lines 177-216
ParseArgs ==
    /\ mpc = "args"
    /\ team_members' = ParseTeamMembers(arg_team)
    /\ IF NoTeamMember(team_members')
       THEN /\ exit_code' = 2
            /\ mpc' = "exit"
       ELSE /\ exit_code' = exit_code
            /\ mpc' = "loop"
    /\ file_i' = 1
    /\ results' = <<>>
    /\ owned_files' = <<>>
    /\ UNCHANGED <<arg_team, threshold, min_commits, repo, report>>
    /\ UNCHANGED avars

\* lines 218-233: one iteration of the per-file loop; the file's path is its
\* position in the list
AnalyzeNextFile ==
    /\ mpc = "loop"
    /\ file_i <= Len(repo)
    /\ LET analysis == AnalyzeFileOwnership(file_i, team_members, repo[file_i])
       IN  IF Analyzed(analysis, min_commits)
           THEN /\ results' = Append(results, analysis)
                /\ owned_files' = IF Owned(analysis, threshold)
                                  THEN Append(owned_files, analysis)
                                  ELSE owned_files
           ELSE UNCHANGED <<results, owned_files>>
    /\ file_i' = file_i + 1
    /\ UNCHANGED <<team_members, arg_team, threshold, min_commits, repo, report,
                   exit_code, mpc>>
    /\ UNCHANGED avars

\* lines 235-257: the sort and the report
WriteReport ==
    /\ mpc = "loop"
    /\ file_i > Len(repo)
    /\ owned_files' = SortByTeamPercentage(owned_files)
    /\ report' = [none |-> FALSE,
                  total_files_analyzed |-> Len(results),
                  files_above_threshold |-> Len(owned_files'),
                  owned_files |-> owned_files']
    /\ exit_code' = 0
    /\ mpc' = "end"
    /\ UNCHANGED <<team_members, arg_team, threshold, min_commits, repo, file_i, results>>
    /\ UNCHANGED avars

NextMain == ParseArgs \/ AnalyzeNextFile \/ WriteReport

SpecMain == InitMain /\ [][NextMain]_vars

(***************************************************************************)
(* Vocabulary of the properties.                                           *)
(***************************************************************************)
\* the lines the for loop has already processed
Processed == SubSeq(lines, 1, pos - 1)

\* the line is a commit header naming author a
NamesAuthor(line, a) == IsHeaderLine(line) /\ Strip(Split(line, BAR)[1]) = a

HeaderCount(ls, a) == Cardinality({k \in 1..Len(ls) : NamesAuthor(ls[k], a)})

NumHeaders(ls) == Cardinality({k \in 1..Len(ls) : IsHeaderLine(ls[k])})

\* the author of the last header of ls (ls holds one)
LastHeaderAuthor(ls) ==
    LET k == CHOOSE k \in 1..Len(ls) :
                 IsHeaderLine(ls[k]) /\ \A j \in (k + 1)..Len(ls) : ~IsHeaderLine(ls[j])
    IN  Strip(Split(ls[k], BAR)[1])

\* a count field of a well-formed stat line: '-' or decimal digits
WellFormedCount(f) == f = <<DASH>> \/ (f # <<>> /\ \A k \in 1..Len(f) : f[k] \in Digits)

CountValue(f) == IF f = <<DASH>> THEN 0 ELSE DigitsValue(f, 0)

WellFormedStat(line) ==
    /\ ~IsHeaderLine(line)
    /\ LET p == Split(line, TAB)
       IN  Len(p) >= 2 /\ WellFormedCount(p[1]) /\ WellFormedCount(p[2])

\* a field int() accepts, or the sentinel
IntegerOrDash(f) == f = <<DASH>> \/ PyInt(f).ok

MalformedStat(line) ==
    /\ ~IsHeaderLine(line)
    /\ LET p == Split(line, TAB)
       IN  Len(p) < 2 \/ ~IntegerOrDash(p[1]) \/ ~IntegerOrDash(p[2])

RECURSIVE WithoutMalformed(_)
WithoutMalformed(ls) ==
    IF ls = <<>> THEN <<>>
    ELSE IF MalformedStat(Head(ls)) THEN WithoutMalformed(Tail(ls))
    ELSE <<Head(ls)>> \o WithoutMalformed(Tail(ls))

\* ls from its first header on (nothing when it has none)
RECURSIVE FromFirstHeader(_)
FromFirstHeader(ls) ==
    IF ls = <<>> THEN <<>>
    ELSE IF IsHeaderLine(Head(ls)) THEN ls
    ELSE FromFirstHeader(Tail(ls))

InRange(p) == 0 <= p.num /\ p.num <= 100 * p.den

Scanning == pc = "scan" /\ pos <= Len(lines)

Returned == pc = "done" /\ ~result.none

(***************************************************************************)
(* Properties of analyze_file_ownership (SpecAnalyze).                     *)
(***************************************************************************)
\* C1: in every returned record team_commits <= total_commits, with equality
\* exactly when every author of all_authors is a team member.
C1_TeamCommitsBound ==
    Returned =>
        /\ result.team_commits <= result.total_commits
        /\ (result.team_commits = result.total_commits
              <=> \A a \in result.all_authors : a \in team_members)

\* a record with team and non-team commits
C1_Witness ==
    /\ Returned
    /\ 0 < result.team_commits
    /\ result.team_commits < result.total_commits

\* C2: in every returned record both percentages lie in [0, 100].
C2_PercentagesInRange ==
    Returned =>
        /\ InRange(result.team_commit_percentage)
        /\ InRange(result.team_addition_percentage)

\* C3: after every processed line and in the final mapping, every author's
\* commits, additions and deletions are >= 0 and net_lines = additions - deletions.
C3_CountsNonNegative ==
    pc \in {"scan", "done"} =>
        \A a \in DOMAIN authors :
            /\ authors[a].commits >= 0
            /\ authors[a].additions >= 0
            /\ authors[a].deletions >= 0
            /\ authors[a].net_lines = authors[a].additions - authors[a].deletions

\* every author's commits is the number of processed headers naming that author,
\* and total_commits the number of headers of the text
C4_HeaderCounts ==
    /\ pc \in {"scan", "done"} =>
           \A a \in DOMAIN authors : authors[a].commits = HeaderCount(Processed, a)
    /\ Returned => result.total_commits = NumHeaders(lines)

\* a header adds 1 to the commits of the author it names and changes nothing else
C4_HeaderEffect ==
    (Scanning /\ IsHeaderLine(lines[pos])) =>
        LET a == Strip(Split(lines[pos], BAR)[1])
        IN  /\ DOMAIN authors' = (DOMAIN authors) \cup {a}
            /\ authors'[a] = [StatsOf(authors, a) EXCEPT
                                 !.commits = StatsOf(authors, a).commits + 1]
            /\ \A b \in (DOMAIN authors) \ {a} : authors'[b] = authors[b]

\* C4: each line containing '|' and '@' increments by exactly 1 the commits of
\* the author named by its first '|'-delimited field, trimmed, and changes no
\* other count; each author's commits is the number of header lines naming that
\* author, and total_commits the number of header lines of the input.
C4_HeaderIncrements == [][C4_HeaderEffect]_vars /\ []C4_HeaderCounts

\* author a@ committed twice around a commit of b@
C4_Witness ==
    /\ Returned
    /\ result.total_commits = 3
    /\ StatsOf(authors, AuthorA).commits = 2
    /\ \E j, k, l \in 1..Len(lines) :
           /\ j < k /\ k < l
           /\ NamesAuthor(lines[j], AuthorA)
           /\ NamesAuthor(lines[k], AuthorB)
           /\ NamesAuthor(lines[l], AuthorA)

C5_StatEffect ==
    (Scanning /\ WellFormedStat(lines[pos]) /\ NumHeaders(Processed) > 0) =>
        LET a == LastHeaderAuthor(Processed)
            p == Split(lines[pos], TAB)
            s == StatsOf(authors, a)
        IN  /\ a \in DOMAIN authors'
            /\ authors'[a].additions = s.additions + CountValue(p[1])
            /\ authors'[a].deletions = s.deletions + CountValue(p[2])
            /\ authors'[a].commits = s.commits
            /\ \A b \in (DOMAIN authors) \ {a} : authors'[b] = authors[b]

\* C5: every well-formed stat line after a commit header adds its addition and
\* deletion counts ('-' as 0) to the totals of the most recent header's author,
\* whatever that author's identity string is, and leaves every other author's
\* counts unchanged.
C5_StatLineCredited == [][C5_StatEffect]_vars

C6_MalformedEffect ==
    (Scanning /\ MalformedStat(lines[pos])) =>
        /\ authors' = authors
        /\ current_author' = current_author

\* the scan stands where it would stand had the malformed lines been absent
C6_AsIfAbsent ==
    pc \in {"scan", "done"} =>
        LET st == ScanAll(InitScan, WithoutMalformed(Processed))
        IN  authors = st.authors /\ current_author = st.current_author

\* C6: a malformed stat line (fewer than two tab-separated fields, or a first or
\* second field that is neither an integer nor '-') changes no author's counts
\* and not the current author; the later lines are processed as if it were absent.
C6_MalformedIgnored == [][C6_MalformedEffect]_vars /\ []C6_AsIfAbsent

\* after a header, a line with a valid first and an invalid second field was
\* skipped and a later stat line was still counted
C6_Witness ==
    /\ Returned
    /\ result.total_additions = 2
    /\ \E j, k, l \in 1..Len(lines) :
           /\ j < k /\ k < l
           /\ IsHeaderLine(lines[j])
           /\ lines[k] = BadSecond
           /\ lines[l] = StatOk

\* C7: no result exactly when the text is empty, retrieval failed or the text
\* holds no commit header; the lines before the first header count for no author.
C7_NoResultIffNoHeader ==
    /\ pc = "done" =>
           (result.none <=>
               \/ output = NoneVal
               \/ output = <<>>
               \/ NumHeaders(Split(output, NL)) = 0)
    /\ (pc \in {"scan", "done"} /\ NumHeaders(Processed) = 0) =>
           (DOMAIN authors = {} /\ current_author = NoneVal)
    /\ pc \in {"scan", "done"} =>
           authors = ScanAll(InitScan, FromFirstHeader(Processed)).authors

\* a stat line stood before the first header and counted for nobody
C7_Witness ==
    /\ Returned
    /\ lines[1] = StatOk
    /\ result.total_additions = 0
    /\ result.total_commits = 2

(***************************************************************************)
(* Properties of main (SpecMain).                                          *)
(***************************************************************************)
\* the files the per-file loop is through with
FilesDone == 1..(file_i - 1)

InList(list, f) == \E k \in 1..Len(list) : list[k].file = f

Records(list) == {list[k] : k \in 1..Len(list)}

\* C8: a file's record is in results iff its analysis gave a record with
\* total_commits >= min_commits, and in owned_files iff it is in results and
\* team_commit_percentage >= threshold; owned_files is a subset of results and
\* files_above_threshold <= total_files_analyzed.
C8_Membership ==
    mpc \in {"loop", "end"} =>
        /\ \A f \in FilesDone :
               LET an == AnalyzeFileOwnership(f, team_members, repo[f])
               IN  /\ InList(results, f) <=>
                          (~an.none /\ an.total_commits >= min_commits)
                   /\ InList(results, f) => an \in Records(results)
                   /\ InList(owned_files, f) <=>
                          /\ InList(results, f)
                          /\ an.team_commit_percentage.num
                                 >= threshold * an.team_commit_percentage.den
        /\ \A r \in Records(results) : r.file \in FilesDone
        /\ Records(owned_files) \subseteq Records(results)
        /\ Len(owned_files) <= Len(results)
        /\ mpc = "end" =>
               /\ report.total_files_analyzed = Len(results)
               /\ report.files_above_threshold = Len(owned_files)
               /\ report.files_above_threshold <= report.total_files_analyzed

\* of three files one fell below min_commits, one was analyzed only, one is owned
C8_Witness ==
    /\ mpc = "end"
    /\ Len(repo) = 3
    /\ Len(results) = 2
    /\ Len(owned_files) = 1
    /\ \E f \in 1..3 :
           /\ ~InList(results, f)
           /\ ~AnalyzeFileOwnership(f, team_members, repo[f]).none

\* C9: the owned_files of the report are in descending order of
\* team_commit_percentage, records of equal percentage in the order their files
\* were analyzed, and the sort adds or removes no record.
C9_SortedStable ==
    mpc = "end" =>
        /\ report.owned_files = owned_files
        /\ \A j, k \in 1..Len(owned_files) :
               j < k =>
                   /\ ~PctLess(owned_files[j].team_commit_percentage,
                               owned_files[k].team_commit_percentage)
                   /\ PctEq(owned_files[j].team_commit_percentage,
                            owned_files[k].team_commit_percentage)
                          => owned_files[j].file < owned_files[k].file
        /\ Records(owned_files) =
               {r \in Records(results) : PctGE(r.team_commit_percentage, threshold)}
        /\ Len(owned_files) = Cardinality(Records(owned_files))

\* the file analyzed last leads, the two behind it tie and keep their order
C9_Witness ==
    /\ mpc = "end"
    /\ Len(owned_files) = 3
    /\ owned_files[1].file = 3
    /\ owned_files[2].file = 1
    /\ owned_files[3].file = 2
    /\ owned_files[2].team_commit_percentage # owned_files[3].team_commit_percentage
    /\ PctEq(owned_files[2].team_commit_percentage,
             owned_files[3].team_commit_percentage)

\* the --team-members string names nobody
NoIdentity(arg) ==
    LET parts == Split(arg, COMMA)
    IN  \A k \in 1..Len(parts) : Strip(parts[k]) = <<>>

\* C10: a team-member list that yields no identity makes main exit with status
\* 2 before any file is analyzed; when analysis runs the team set is non-empty
\* and holds no empty identity.
C10_EmptyTeamRejected ==
    mpc # "args" =>
        /\ NoIdentity(arg_team) => (mpc = "exit" /\ exit_code = 2)
        /\ mpc \in {"loop", "end"} => (team_members # {} /\ <<>> \notin team_members)

====
